---- MODULE Spec2Model ----
(***************************************************************************)
(* rust-httpie (src/main.rs): a command-line HTTP client.  One run parses  *)
(* the command line (clap: parse_url, KvPair::from_str), issues one GET or *)
(* POST request and prints the response (status, headers, body).           *)
(*                                                                         *)
(* Text is modelled as a sequence of one-character strings, so that        *)
(* splitting, prefixes and line structure are computed, not assumed.       *)
(* Header values and terminal output are sequences of tokens (words,       *)
(* separators, newlines, colour escapes).                                  *)
(***************************************************************************)
EXTENDS Naturals, Sequences, FiniteSets

VARIABLES argv, pc, opts, requests, response, stdout, mime, body, render, exit_code

vars == <<argv, pc, opts, requests, response, stdout, mime, body, render, exit_code>>

\* ------------------------------------------------------------------ bounds
MaxTokLen == 5
MaxUrlLen == 6
MaxPairs == 2
MaxPairLen == 3
MaxHeaders == 2
MaxBodyLen == 3

\* ----------------------------------------------------------------- helpers
None == "None"
Running == "running"
\* Option<T> is a sequence of no or one T.
NoneOpt == <<>>
Some(x) == <<x>>

\* All texts over alphabet A of length at most n.
Strs(A, n) == UNION {[1..k -> A] : k \in 0..n}

\* Index of the first element of s at or after i that is in set C; Len(s)+1 if none.
RECURSIVE FindFrom(_, _, _)
FindFrom(s, i, C) ==
  IF i > Len(s) THEN Len(s) + 1
  ELSE IF s[i] \in C THEN i
  ELSE FindFrom(s, i + 1, C)

Drop(s, n) == SubSeq(s, n + 1, Len(s))
Take(s, n) == SubSeq(s, 1, n)

RECURSIVE Concat(_)
Concat(ss) == IF ss = <<>> THEN <<>> ELSE Head(ss) \o Concat(Tail(ss))

\* ------------------------------------------------------- KvPair::from_str
\* str::split(sep): the segments between occurrences of sep (always at
\* least one segment, also for the empty text).
RECURSIVE Split(_, _)
Split(s, sep) ==
  LET i == FindFrom(s, 1, {sep})
  IN IF i > Len(s) THEN <<s>>
     ELSE <<Take(s, i - 1)>> \o Split(Drop(s, i), sep)

\* KvPair::from_str: the first two segments of s.split('='); an error when
\* there is no second segment.
KvFromStr(s) ==
  LET split == Split(s, "=")
  IN IF Len(split) < 2 THEN [ok |-> FALSE, k |-> <<>>, v |-> <<>>]
     ELSE [ok |-> TRUE, k |-> split[1], v |-> split[2]]

\* ---------------------------------------------------------------- parse_url
Alpha == {"a", "b", "c", "d", "e", "f", "g", "h", "i", "j", "k", "l", "m",
          "n", "o", "p", "q", "r", "s", "t", "u", "v", "w", "x", "y", "z"}
\* The characters a scheme may continue with (digits are outside the input
\* alphabets used here).
SchemeChar == Alpha \cup {"+", "-", "."}

Http == <<"h", "t", "t", "p">>
Https == <<"h", "t", "t", "p", "s">>
\* The special schemes other than file.
SpecialNotFile == {Http, Https, <<"w", "s">>, <<"w", "s", "s">>, <<"f", "t", "p">>}
FileScheme == <<"f", "i", "l", "e">>

\* A parsed URL; host is Option<host text>.
UrlErr == [ok |-> FALSE, scheme |-> <<>>, host |-> NoneOpt, path |-> <<>>, ser |-> <<>>]

\* Parser::parse_scheme: an ASCII letter, then scheme characters, then ':'.
ParseScheme(s) ==
  IF s = <<>> \/ s[1] \notin Alpha THEN [ok |-> FALSE, scheme |-> <<>>, rest |-> <<>>]
  ELSE LET i == FindFrom(s, 1, {c \in {s[j] : j \in 1..Len(s)} : c \notin SchemeChar})
       IN IF i <= Len(s) /\ s[i] = ":"
          THEN [ok |-> TRUE, scheme |-> Take(s, i - 1), rest |-> Drop(s, i)]
          ELSE [ok |-> FALSE, scheme |-> <<>>, rest |-> <<>>]

\* Parser::after_double_slash: authority (host, port) and path.  The input
\* alphabets hold no '@', '?', '#', '\', '[' or digit: there is no userinfo,
\* query or fragment, and a port is either empty or invalid.
AfterDoubleSlash(scheme, special, input) ==
  LET hostEnd == FindFrom(input, 1, {":", "/"})
      hostStr == Take(input, hostEnd - 1)
      rem == Drop(input, hostEnd - 1)
      hasColon == rem # <<>> /\ rem[1] = ":"
      afterPort == IF hasColon THEN Drop(rem, 1) ELSE rem
      path == IF special /\ afterPort = <<>> THEN <<"/">> ELSE afterPort
  IN IF hostStr = <<>> /\ (special \/ hasColon) THEN UrlErr          \* EmptyHost
     ELSE IF hasColon /\ afterPort # <<>> /\ afterPort[1] # "/" THEN UrlErr  \* InvalidPort
     ELSE [ok |-> TRUE, scheme |-> scheme,
           host |-> IF hostStr = <<>> THEN NoneOpt ELSE Some(hostStr),
           path |-> path,
           ser |-> scheme \o <<":", "/", "/">> \o hostStr \o path]

\* Parser::parse_non_special: "//" starts an authority; otherwise the URL has
\* no host (a path, or an opaque cannot-be-a-base path such as mailto:x).
ParseNonSpecial(scheme, input) ==
  IF Len(input) >= 2 /\ input[1] = "/" /\ input[2] = "/"
  THEN AfterDoubleSlash(scheme, FALSE, Drop(input, 2))
  ELSE [ok |-> TRUE, scheme |-> scheme, host |-> NoneOpt, path |-> input,
        ser |-> scheme \o <<":">> \o input]

\* Input::count_matching(|c| matches!(c, '/' | '\\')): the text after its
\* leading slashes.
RECURSIVE SkipSlashes(_)
SkipSlashes(s) ==
  IF s # <<>> /\ s[1] \in {"/", "\\"} THEN SkipSlashes(Tail(s)) ELSE s

\* Url::parse without a base URL (Parser::parse_url, parse_with_scheme).  A
\* text without a scheme is relative and fails; a special scheme skips any
\* number of slashes and needs a host.  The file scheme is not modelled: no
\* input here carries it.
UrlParse(s) ==
  LET sch == ParseScheme(s)
  IN IF ~sch.ok THEN UrlErr                                   \* RelativeUrlWithoutBase
     ELSE CASE sch.scheme \in SpecialNotFile ->
                 AfterDoubleSlash(sch.scheme, TRUE, SkipSlashes(sch.rest))
            [] sch.scheme \notin SpecialNotFile /\ sch.scheme # FileScheme ->
                 ParseNonSpecial(sch.scheme, sch.rest)

\* parse_url: Ok(url.into()) is the parsed URL's serialization.
parse_url(s) ==
  LET u == UrlParse(s)
  IN [ok |-> u.ok, url |-> u.ser]

\* What reqwest accepts as a request URL (IntoUrl, Client::execute_request):
\* the text parses, has a host, and its scheme is http or https.
ClientAccepts(url) ==
  LET u == UrlParse(url)
  IN u.ok /\ u.host # NoneOpt /\ u.scheme \in {Http, Https}

\* ------------------------------------------------------------ Opts::parse
\* A mutant of ArgsOk: the body tokens are not validated.
ArgsOk_urlOnly(a) == parse_url(a.url).ok

\* clap runs parse_url on the url and KvPair::from_str on every body token
\* (a get has no body tokens).
ArgsOk(a) ==
  /\ parse_url(a.url).ok
  /\ \A i \in 1..Len(a.body) : KvFromStr(a.body[i]).ok

ParsedOpts(a) ==
  [sub |-> a.sub,
   url |-> parse_url(a.url).url,
   body |-> [i \in 1..Len(a.body) |->
              [k |-> KvFromStr(a.body[i]).k, v |-> KvFromStr(a.body[i]).v]]]

\* ------------------------------------------------------------------- post
\* A mutant of HashMapInsert: an existing key keeps its value.
HashMapInsert_keepFirst(m, k, v) ==
  [x \in DOMAIN m \cup {k} |-> IF x \in DOMAIN m THEN m[x] ELSE v]

\* HashMap::insert: the key maps to the new value, replacing an older one.
HashMapInsert(m, k, v) ==
  [x \in DOMAIN m \cup {k} |-> IF x = k THEN v ELSE m[x]]

\* The loop of post: insert every pair, in order.
RECURSIVE BuildBody(_, _)
BuildBody(m, pairs) ==
  IF pairs = <<>> THEN m
  ELSE BuildBody(HashMapInsert(m, Head(pairs).k, Head(pairs).v), Tail(pairs))

EmptyMap == [x \in {} |-> <<>>]

\* RequestBuilder::json on a map: one "key": "value" entry per key of the map.
JsonObject(m) == {<<k, m[k]>> : k \in DOMAIN m}

\* The default headers main gives the client.
DefaultHeaders == {<<"x-powered-by", "Rust">>, <<"user-agent", "Rust Httpie">>}

\* --------------------------------------------------------- print_response
\* Terminal colour escapes (colored's blue and green, syntect's 24-bit
\* colours) are tokens of their own, so that output can be read without them.
EscBlue == "<esc:blue>"
EscGreen == "<esc:green>"
EscReset == "<esc:reset>"
EscStyle(ext) == IF ext = "json" THEN "<esc:json>" ELSE "<esc:html>"
EscTokens == {EscBlue, EscGreen, EscReset, "<esc:json>", "<esc:html>"}
NL == "\n"

\* A header value byte that is not visible ASCII.
ByteFF == "<0xFF>"
MimeParams == {"charset=utf-8"}
IsWord(t) == t \notin {"/", ";", ByteFF} \cup MimeParams

\* StatusCode's Display: the code and its canonical reason.
StatusText(code) == IF code = 200 THEN "200 OK" ELSE "404 Not Found"

\* print_status: "{:?} {}" of version and status, in blue, then println!
\* of "{}\n": the line, its newline and one more.
StatusOutput(r) ==
  <<EscBlue, r.version, " ", StatusText(r.status), EscReset, NL, NL>>

\* HeaderValue's Debug ("{:?}"): the value between double quotes, a byte
\* that is not visible ASCII as a \x escape.
DebugValue(v) ==
  <<"\"">> \o [i \in 1..Len(v) |-> IF v[i] = ByteFF THEN "\\xff" ELSE v[i]] \o <<"\"">>

\* One iteration of print_headers: the name in green, ": ", the value's Debug.
HeaderLine(h) ==
  <<EscGreen, h[1], EscReset, ": ">> \o DebugValue(h[2]) \o <<NL>>

\* print_headers: a line per header of the map, in its iteration order, then
\* an empty println!.
HeadersOutput(r) ==
  Concat([i \in 1..Len(r.headers) |-> HeaderLine(r.headers[i])]) \o <<NL>>

\* HeaderValue::to_str: fails on a byte that is not visible ASCII.
ToStrOk(v) == \A i \in 1..Len(v) : v[i] # ByteFF

APPLICATION_JSON == [type |-> "application", subtype |-> "json", params |-> <<>>]
TEXT_HTML == [type |-> "text", subtype |-> "html", params |-> <<>>]

\* Mime's FromStr: type "/" subtype, then ";" parameter pairs.
MimeParse(v) ==
  IF /\ Len(v) >= 3 /\ IsWord(v[1]) /\ v[2] = "/" /\ IsWord(v[3])
     /\ (Len(v) - 3) % 2 = 0
     /\ \A i \in 4..Len(v) : IF i % 2 = 0 THEN v[i] = ";" ELSE v[i] \in MimeParams
  THEN [ok |-> TRUE,
        mime |-> [type |-> v[1], subtype |-> v[3],
                  params |-> [j \in 1..((Len(v) - 3) \div 2) |-> v[3 + 2 * j]]]]
  ELSE [ok |-> FALSE, mime |-> [type |-> "", subtype |-> "", params |-> <<>>]]

\* HeaderMap::get(CONTENT_TYPE): the first value of that name, if any.
ContentTypeHeader(r) ==
  LET idx == {i \in 1..Len(r.headers) : r.headers[i][1] = "content-type"}
  IN IF idx = {} THEN NoneOpt
     ELSE Some(r.headers[CHOOSE i \in idx : \A j \in idx : i <= j][2])

\* A mutant of get_content_type: a value that does not decode gives None.
get_content_type_fallback(r) ==
  LET v == ContentTypeHeader(r)
  IN IF v = NoneOpt \/ ~ToStrOk(v[1]) \/ ~MimeParse(v[1]).ok
     THEN [panic |-> FALSE, mime |-> NoneOpt]
     ELSE [panic |-> FALSE, mime |-> Some(MimeParse(v[1]).mime)]

\* get_content_type: no header gives None; a header is unwrapped twice
\* (to_str, parse), and either unwrap panics on an error.
get_content_type(r) ==
  LET v == ContentTypeHeader(r)
  IN IF v = NoneOpt THEN [panic |-> FALSE, mime |-> NoneOpt]
     ELSE IF ~ToStrOk(v[1]) \/ ~MimeParse(v[1]).ok THEN [panic |-> TRUE, mime |-> NoneOpt]
     ELSE [panic |-> FALSE, mime |-> Some(MimeParse(v[1]).mime)]

\* The match of print_body on Option<Mime>: Mime equality compares type,
\* subtype and parameters.
BodyMode(m) ==
  IF m = Some(APPLICATION_JSON) THEN "json"
  ELSE IF m = Some(TEXT_HTML) THEN "html"
  ELSE "raw"

\* syntect's LinesWithEndings: the lines of a text, each with its newline.
RECURSIVE LinesWithEndings(_)
LinesWithEndings(s) ==
  IF s = <<>> THEN <<>>
  ELSE LET i == FindFrom(s, 1, {NL})
       IN IF i > Len(s) THEN <<s>>
          ELSE <<Take(s, i)>> \o LinesWithEndings(Drop(s, i))

\* One iteration of print_syntect: the line's highlighted ranges as escapes
\* followed by their text (the ranges' texts concatenate to the line), then
\* println!'s newline.
SyntectLine(line, ext) == <<EscStyle(ext)>> \o line \o <<NL>>

print_syntect(b, ext) ==
  LET lines == LinesWithEndings(b)
  IN Concat([i \in 1..Len(lines) |-> SyntectLine(lines[i], ext)])

\* print_body: highlighted for the two matched types, println! of the body
\* otherwise.
BodyOutput(m, b) ==
  IF BodyMode(m) = "raw" THEN b \o <<NL>> ELSE print_syntect(b, BodyMode(m))

\* ------------------------------------------------------------------ inputs
UrlAbcXyz == <<"h", "t", "t", "p", ":", "/", "/", "a", "b", "c", ".", "x", "y", "z">>
UrlHttpbinPost ==
  <<"h", "t", "t", "p", "s", ":", "/", "/", "h", "t", "t", "p", "b", "i", "n",
    ".", "o", "r", "g", "/", "p", "o", "s", "t">>
UrlNoScheme == <<"u", "r", "l">>
UrlMailto == <<"m", "a", "i", "l", "t", "o", ":", "a">>

\* Command lines of whole runs: both subcommands, URLs that parse and do
\* not, body tokens that parse and do not.
RunArgv ==
  {[sub |-> "get", url |-> u, body |-> <<>>] : u \in {UrlAbcXyz, UrlNoScheme, UrlMailto}}
  \cup {[sub |-> "post", url |-> u, body |-> b] :
          u \in {UrlHttpbinPost, UrlNoScheme},
          b \in {<<<<"a", "=", "b">>>>, <<<<"a">>>>, <<<<"a", "=", "b">>, <<"a">>>>}}

\* Command lines for KvPair::from_str: a post with one body token.
KvArgv ==
  {[sub |-> "post", url |-> UrlHttpbinPost, body |-> <<t>>] :
     t \in Strs({"a", "b", "="}, MaxTokLen)}

\* Command lines for parse_url: a get of any short text, and the URLs of
\* the repository's test.
UrlArgv ==
  {[sub |-> "get", url |-> u, body |-> <<>>] :
     u \in Strs({"w", "s", ":", "/"}, MaxUrlLen)
           \cup {UrlAbcXyz, UrlHttpbinPost, UrlNoScheme, UrlMailto}}

\* Command lines for post: up to MaxPairs body tokens.
PostArgv ==
  {[sub |-> "post", url |-> UrlHttpbinPost, body |-> b] :
     b \in Strs(Strs({"a", "="}, MaxPairLen), MaxPairs)}

\* Content-type header values: the two highlighted types, a type with a
\* parameter, another type, a text that is no MIME type, a value that is no
\* text.
CtValues ==
  {<<"application", "/", "json">>, <<"text", "/", "html">>,
   <<"application", "/", "json", ";", "charset=utf-8">>,
   <<"text", "/", "plain">>, <<"garbage">>, <<ByteFF>>}

HeaderPairs == {<<"content-type", v>> : v \in CtValues} \cup {<<"server", <<"nginx">>>>}

\* A HeaderMap iterates the values of one name together.
Grouped(hs) ==
  \A i, j, k \in 1..Len(hs) : (i < j /\ j < k /\ hs[i][1] = hs[k][1]) => hs[j][1] = hs[i][1]

\* The responses a server may send.
Responses ==
  {[version |-> "HTTP/1.1", status |-> st, headers |-> hs, body |-> b] :
     st \in {200, 404},
     hs \in {h \in Strs(HeaderPairs, MaxHeaders) : Grouped(h)},
     b \in Strs({"x", NL}, MaxBodyLen)}

\* ------------------------------------------------------------------- state
\* Before they are assigned: the parsed options, the response, the body text.
NoOpts == [sub |-> None, url |-> <<>>, body |-> <<>>]
NoResponse == [version |-> None, status |-> 0, headers |-> <<>>, body |-> <<>>]
Unread == <<"<unread>">>

InitWith(A) ==
  /\ argv \in A
  /\ pc = "start"
  /\ opts = NoOpts
  /\ requests = <<>>
  /\ response = NoResponse
  /\ stdout = <<>>
  /\ mime = NoneOpt
  /\ body = Unread
  /\ render = "none"
  /\ exit_code = Running

Init == InitWith(RunArgv)
InitKv == InitWith(KvArgv)
InitUrl == InitWith(UrlArgv)
InitPost == InitWith(PostArgv)

\* The process ends with this exit code.
Exit(code) == pc' = "exited" /\ exit_code' = code

\* Opts::parse (main, line 63): clap prints the error and exits with code 2
\* when a value parser fails.
ParseArgs ==
  /\ pc = "start"
  /\ IF ArgsOk(argv)
     THEN /\ opts' = ParsedOpts(argv)
          /\ pc' = "parsed"
          /\ UNCHANGED exit_code
     ELSE /\ Exit(2)
          /\ UNCHANGED opts
  /\ UNCHANGED <<argv, requests, response, stdout, mime, body, render>>

\* get up to the await of send(): one GET request without a body, or the
\* client's error for a URL it does not accept (main then returns Err).
Get ==
  /\ pc = "parsed" /\ opts.sub = "get"
  /\ IF ClientAccepts(opts.url)
     THEN /\ requests' = Append(requests, [method |-> "GET", url |-> opts.url,
                                           headers |-> DefaultHeaders, json |-> NoneOpt])
          /\ pc' = "awaiting"
          /\ UNCHANGED exit_code
     ELSE /\ Exit(1)
          /\ UNCHANGED requests
  /\ UNCHANGED <<argv, opts, response, stdout, mime, body, render>>

\* post up to the await of send(): the map of the pairs, sent as JSON.
Post ==
  /\ pc = "parsed" /\ opts.sub = "post"
  /\ IF ClientAccepts(opts.url)
     THEN /\ requests' = Append(requests,
                 [method |-> "POST", url |-> opts.url,
                  headers |-> DefaultHeaders \cup {<<"content-type", "application/json">>},
                  json |-> Some(JsonObject(BuildBody(EmptyMap, opts.body)))])
          /\ pc' = "awaiting"
          /\ UNCHANGED exit_code
     ELSE /\ Exit(1)
          /\ UNCHANGED requests
  /\ UNCHANGED <<argv, opts, response, stdout, mime, body, render>>

\* send().await? fails (DNS, connect, TLS, timeout): main returns Err.
SendFails ==
  /\ pc = "awaiting"
  /\ Exit(1)
  /\ UNCHANGED <<argv, opts, requests, response, stdout, mime, body, render>>

\* send().await returns a response, whatever its status.
SendReturns ==
  /\ pc = "awaiting"
  /\ \E r \in Responses : response' = r
  /\ pc' = "print_status"
  /\ UNCHANGED <<argv, opts, requests, stdout, mime, body, render, exit_code>>

PrintStatus ==
  /\ pc = "print_status"
  /\ stdout' = stdout \o StatusOutput(response)
  /\ pc' = "print_headers"
  /\ UNCHANGED <<argv, opts, requests, response, mime, body, render, exit_code>>

PrintHeaders ==
  /\ pc = "print_headers"
  /\ stdout' = stdout \o HeadersOutput(response)
  /\ pc' = "get_content_type"
  /\ UNCHANGED <<argv, opts, requests, response, mime, body, render, exit_code>>

\* let mime = get_content_type(&response): a panic ends the process with
\* code 101.
GetContentType ==
  /\ pc = "get_content_type"
  /\ LET res == get_content_type(response)
     IN IF res.panic
        THEN /\ Exit(101)
             /\ UNCHANGED mime
        ELSE /\ mime' = res.mime
             /\ pc' = "read_body"
             /\ UNCHANGED exit_code
  /\ UNCHANGED <<argv, opts, requests, response, stdout, body, render>>

\* response.text().await returns the body.
TextReturns ==
  /\ pc = "read_body"
  /\ body' = response.body
  /\ pc' = "print_body"
  /\ UNCHANGED <<argv, opts, requests, response, stdout, mime, render, exit_code>>

\* response.text().await? fails (the connection breaks while the body is
\* read): main returns Err.
TextFails ==
  /\ pc = "read_body"
  /\ Exit(1)
  /\ UNCHANGED <<argv, opts, requests, response, stdout, mime, body, render>>

\* print_body, then Ok(()) up to main: the process exits with code 0.
PrintBody ==
  /\ pc = "print_body"
  /\ stdout' = stdout \o BodyOutput(mime, body)
  /\ render' = BodyMode(mime)
  /\ Exit(0)
  /\ UNCHANGED <<argv, opts, requests, response, mime, body>>

Next ==
  \/ ParseArgs
  \/ Get
  \/ Post
  \/ SendFails
  \/ SendReturns
  \/ PrintStatus
  \/ PrintHeaders
  \/ GetContentType
  \/ TextReturns
  \/ TextFails
  \/ PrintBody

Spec == Init /\ [][Next]_vars

\* Argument parsing alone, over wide sets of body tokens and of URLs.
NextParse == ParseArgs
SpecKv == InitKv /\ [][NextParse]_vars
SpecUrl == InitUrl /\ [][NextParse]_vars

\* Argument parsing and the request of post, over sequences of pairs.
NextPost == ParseArgs \/ Post
SpecPost == InitPost /\ [][NextPost]_vars

\* =================================================================== claims
\* Notions the claims speak of, stated on the inputs and outputs.
HasEq(t) == \E i \in 1..Len(t) : t[i] = "="
FirstEq(t) == FindFrom(t, 1, {"="})
Received == response # NoResponse
Ended == pc = "exited"
Failed == Ended /\ exit_code # 0
\* Output without its colour escapes.
Strip(out) == SelectSeq(out, LAMBDA t : t \notin EscTokens)
\* The lines of a text (str::lines): a final newline ends the last line.
LinesOf(s) ==
  LET segs == Split(s, NL)
  IN IF segs[Len(segs)] = <<>> THEN Take(segs, Len(segs) - 1) ELSE segs
IsPrefix(p, s) == Len(p) <= Len(s) /\ Take(s, Len(p)) = p
\* The text has a scheme: a letter, scheme characters, then ':'.
HasScheme(s) ==
  \E i \in 2..Len(s) :
    s[i] = ":" /\ s[1] \in Alpha /\ \A j \in 2..(i - 1) : s[j] \in SchemeChar
\* scheme "://" host, then nothing or a path: letters and dots in the host,
\* letters, dots and slashes in the path.
WellFormedAbsolute(s) ==
  \E i \in 2..Len(s) : \E e \in (i + 3)..Len(s) :
    /\ \A j \in 1..(i - 1) : s[j] \in Alpha
    /\ s[i] = ":" /\ s[i + 1] = "/" /\ s[i + 2] = "/"
    /\ \A j \in (i + 3)..e : s[j] \in Alpha \cup {"."}
    /\ s[i + 3] \in Alpha /\ s[e] \in Alpha
    /\ \A j \in (i + 3)..(e - 1) : ~(s[j] = "." /\ s[j + 1] = ".")
    /\ (e = Len(s) \/ s[e + 1] = "/")
    /\ \A j \in (e + 1)..Len(s) : s[j] \in Alpha \cup {".", "/"}
\* The content-type value of the response does not decode: it is not valid
\* text, or no MIME type.
BadContentType ==
  /\ Received
  /\ ContentTypeHeader(response) # NoneOpt
  /\ \/ ~ToStrOk(ContentTypeHeader(response)[1])
     \/ ~MimeParse(ContentTypeHeader(response)[1]).ok

\* C1: for every body token with an '=', parsing yields the key before the
\* first '=' and, as the value, everything after that first '=' (further
\* '=' included).  The code keeps only the text up to the second '='.
C1_ValueIsAllAfterFirstEq ==
  pc # "start" =>
    \A i \in 1..Len(argv.body) :
      LET t == argv.body[i] IN
      HasEq(t) =>
        /\ pc = "parsed"
        /\ opts.body[i].k = Take(t, FirstEq(t) - 1)
        /\ opts.body[i].v = Drop(t, FirstEq(t))

\* C2: parsing fails for every token without '=' and for every token that
\* starts with '=' (empty key); it succeeds for every token with a non-empty
\* key followed by '='.  The code accepts an empty key.
C2_FailsWithoutEqOrKey ==
  pc # "start" =>
    \A i \in 1..Len(argv.body) :
      LET t == argv.body[i] IN
      /\ (~HasEq(t) \/ t[1] = "=") => Failed
      /\ (HasEq(t) /\ t[1] # "=") => pc = "parsed"

\* C3: parse_url fails for every text without a scheme or without a host,
\* and succeeds for every well-formed absolute URL with scheme and host.
\* The code accepts URLs that have no host (mailto:a).
C3_FailsWithoutSchemeOrHost ==
  pc # "start" =>
    /\ (~HasScheme(argv.url) \/ UrlParse(argv.url).host = NoneOpt) => Failed
    /\ WellFormedAbsolute(argv.url) => pc = "parsed"

\* C4: the JSON object of a POST request has exactly one entry per distinct
\* key of the pairs, and its value is that of the last pair with the key.
C4_LastWriteWins ==
  requests # <<>> =>
    LET pairs == opts.body
        obj == requests[1].json[1]
    IN /\ \A i \in 1..Len(pairs) : Cardinality({e \in obj : e[1] = pairs[i].k}) = 1
       /\ \A e \in obj :
            \E i \in 1..Len(pairs) :
              /\ pairs[i].k = e[1] /\ pairs[i].v = e[2]
              /\ \A j \in (i + 1)..Len(pairs) : pairs[j].k # e[1]

\* C4's case: a request was built from two pairs with one key and two values.
C4_Witness ==
  /\ requests # <<>>
  /\ \E i, j \in 1..Len(opts.body) :
       i < j /\ opts.body[i].k = opts.body[j].k /\ opts.body[i].v # opts.body[j].v

\* C5: when the URL or a body token does not parse, no request is ever
\* issued and the process ends with a non-zero exit code.
C5_NoRequestOnParseFailure ==
  (\/ ~parse_url(argv.url).ok
   \/ \E i \in 1..Len(argv.body) : ~KvFromStr(argv.body[i]).ok)
  => /\ requests = <<>>
     /\ pc \in {"start", "exited"}
     /\ Ended => exit_code # 0

\* C5's case: a run that ended on a body token that does not parse, with a
\* URL that does.
C5_Witness ==
  /\ Ended /\ exit_code = 2 /\ requests = <<>>
  /\ parse_url(argv.url).ok
  /\ \E i \in 1..Len(argv.body) : ~KvFromStr(argv.body[i]).ok

\* C6: the exit code is zero exactly when a response was received, and a
\* received response is printed whole.  The code panics on a content type
\* that does not decode, after the response was received.
C6_ZeroExitOnAnyResponse ==
  Ended => /\ (exit_code = 0 <=> Received)
           /\ Received => render # "none"

\* C7: for every received response the output is the status line, a blank
\* line, a line "Name: Value" per header, a blank line, then the body.  The
\* code writes the value in Debug form (quoted), and writes no body when the
\* content type does not decode.
C7_OutputOrder ==
  (Ended /\ Received) =>
    /\ IsPrefix(<<response.version, " ", StatusText(response.status), NL, NL>>
                \o Concat([i \in 1..Len(response.headers) |->
                             <<response.headers[i][1], ": ">> \o response.headers[i][2] \o <<NL>>])
                \o <<NL>>,
                Strip(stdout))
    /\ render # "none"

\* C8: the body is highlighted as JSON when the content type is
\* application/json, as HTML when it is text/html, and printed raw in every
\* other case.  The code prints a body of type application/json with a
\* parameter (charset) raw.
C8_ModeByContentType ==
  render # "none" =>
    LET ct == ContentTypeHeader(response)
        is(ty, sub) == ct # NoneOpt /\ Len(ct[1]) >= 3
                       /\ ct[1][1] = ty /\ ct[1][2] = "/" /\ ct[1][3] = sub
    IN render = IF is("application", "json") THEN "json"
                ELSE IF is("text", "html") THEN "html"
                ELSE "raw"

\* C9: a highlighted body is written as one output line per line of the
\* body, same order and content (colour escapes aside).  The code writes
\* each line with its own newline and println!'s: a blank line follows.
C9_OneOutputLinePerLine ==
  render \in {"json", "html"} =>
    LinesOf(Strip(Drop(stdout, Len(StatusOutput(response)) + Len(HeadersOutput(response)))))
      = LinesOf(response.body)

\* C10: when the content-type value of a received response does not decode,
\* the run aborts with a non-zero exit code after the status line and every
\* header line were written, and the body is never read or printed.
C10_AbortsBeforeBody ==
  BadContentType =>
    /\ body = Unread /\ render = "none"
    /\ pc \in {"print_status", "print_headers", "get_content_type", "exited"}
    /\ Ended => /\ exit_code # 0
                /\ stdout = StatusOutput(response) \o HeadersOutput(response)

\* C10's case: the run aborted on such a response, its headers written.
C10_Witness ==
  /\ BadContentType /\ Ended /\ exit_code = 101
  /\ stdout = StatusOutput(response) \o HeadersOutput(response)
  /\ Len(response.headers) > 1

====
